---- MODULE Spec2Model ----
(***************************************************************************)
(* Field descriptors, their validation (clean) and wire codec (to_xml /    *)
(* from_xml), and field-path resolution of exchangelib/fields.py.          *)
(*                                                                         *)
(* Python values are tagged records [k, n, s]: k is the Python type, n the *)
(* numeric payload, s the sequence payload (characters of a str, bytes of  *)
(* a bytes object, elements of a list).  A str is a sequence of            *)
(* one-character strings so that split, '%s__%s' and len() are computed.   *)
(***************************************************************************)
EXTENDS Integers, Sequences, FiniteSets, TLC

VARIABLES pc, call, ret, wire, ret2, out

vars == <<pc, call, ret, wire, ret2, out>>

-----------------------------------------------------------------------------
(* Bounds of the model *)

\* Server builds are 1..MaxBuild; 0 stands for "no build" (None).
MaxBuild == 2
\* Integers offered to clean() range over -1..MaxInt.
MaxInt == 4
\* Lists offered to clean() have at most MaxList elements.
MaxList == 2

-----------------------------------------------------------------------------
(* Python values *)

None == [k |-> "none", n |-> 0, s |-> <<>>]
PyBool(b) == [k |-> "bool", n |-> IF b THEN 1 ELSE 0, s |-> <<>>]
PyInt(i) == [k |-> "int", n |-> i, s |-> <<>>]
PyDecimal(i) == [k |-> "Decimal", n |-> i, s |-> <<>>]
PyStr(chars) == [k |-> "str", n |-> 0, s |-> chars]
PyBytes(bs) == [k |-> "bytes", n |-> 0, s |-> bs]
PyList(elems) == [k |-> "list", n |-> 0, s |-> elems]
\* An EWSDate: n is the day.
EWSDate(d) == [k |-> "EWSDate", n |-> d, s |-> <<>>]
\* An EWSDateTime: n is the instant, s is <<tz>> when tzinfo is set, <<>> when naive.
EWSDateTime(t, tz) == [k |-> "EWSDateTime", n |-> t, s |-> tz]
\* An ExtendedProperty instance wrapping the simple value n; s = <<1>> marks a
\* wrapped value that its own clean() rejects.
ExtendedProperty(i, bad) == [k |-> "ExtendedProperty", n |-> i, s |-> IF bad THEN <<1>> ELSE <<>>]

\* Outcome of a call: a returned value or a raised exception.
Ok(v) == [st |-> "ok", err |-> "", val |-> v]
Raise(e) == [st |-> "raise", err |-> e, val |-> None]

\* isinstance(v, cls) for the value classes of the field kinds; bool is a
\* subclass of int.
isinstance(v, cls) ==
    \/ v.k = cls
    \/ cls = "int" /\ v.k = "bool"

\* bool(v): Python truthiness of the values that the code tests with "if v" / "not v".
truthy(v) ==
    CASE v.k = "none" -> FALSE
      [] v.k \in {"bool", "int", "Decimal"} -> v.n # 0
      [] v.k \in {"str", "bytes", "list"} -> Len(v.s) > 0
      [] OTHER -> TRUE

-----------------------------------------------------------------------------
(* Field descriptors: Field.__init__ and the subclasses' extra attributes *)

NoBuild == 0

\* A descriptor.  name and field_uri are character sequences, field_uri the
\* empty one for None; supported_from
\* is a build or NoBuild (None); min, max and default are Python values (None
\* when not given); enum is the tuple of labels; max_length is 0 for None.
Field(cls, name, field_uri, is_required, default, supported_from, min, max, enum, max_length) ==
    [cls |-> cls, name |-> name, field_uri |-> field_uri,
     is_required |-> is_required, default |-> default,
     supported_from |-> supported_from, min |-> min, max |-> max,
     enum |-> enum, max_length |-> max_length]

\* The class attribute is_list.
is_list(f) == f.cls \in {"EnumListField", "TextListField"}

\* The class attribute value_cls.
value_cls(f) ==
    CASE f.cls = "BooleanField" -> "bool"
      [] f.cls \in {"IntegerField", "EnumField", "EnumListField"} -> "int"
      [] f.cls = "DecimalField" -> "Decimal"
      [] f.cls = "Base64Field" -> "bytes"
      [] f.cls = "DateField" -> "EWSDate"
      [] f.cls = "DateTimeField" -> "EWSDateTime"
      [] f.cls \in {"TextField", "TextListField", "ChoiceField"} -> "str"
      [] f.cls = "ExtendedPropertyField" -> "ExtendedProperty"
      [] f.cls = "EmailAddressField" -> "EmailAddress"
      [] f.cls = "PhysicalAddressField" -> "PhysicalAddress"
      [] f.cls \in {"SubField", "EmailSubField", "NamedSubField"} -> "str"

\* Field.supports_version: version is a build, or NoBuild for version=None.
supports_version(f, version) ==
    IF f.supported_from = NoBuild \/ version = NoBuild
    THEN TRUE
    ELSE version >= f.supported_from

\* util.is_iterable(value) as Field.clean uses it.
is_iterable(v) == v.k = "list"

\* value.clean(version=version) of a value that has a clean method: only
\* ExtendedProperty instances have one among the modelled values.
value_clean(v) ==
    IF v.k = "ExtendedProperty" /\ v.s # <<>>
    THEN Raise("ValueError:invalid extended property value")
    ELSE Ok(v)

\* Index of the first element of a list that is not of the field's value
\* class, 0 if there is none.
RECURSIVE first_bad_type(_, _, _)
first_bad_type(elems, cls, i) ==
    IF i > Len(elems) THEN 0
    ELSE IF ~isinstance(elems[i], cls) THEN i
    ELSE first_bad_type(elems, cls, i + 1)

\* Field.clean
Field_clean(f, value, version) ==
    IF ~supports_version(f, version) THEN Raise("ErrorInvalidServerVersion")
    ELSE IF value = None THEN
        IF f.is_required /\ f.default = None
        THEN Raise("ValueError:required field with no default")
        ELSE Ok(f.default)
    ELSE IF is_list(f) THEN
        IF ~is_iterable(value) THEN Raise("ValueError:must be a list")
        ELSE IF first_bad_type(value.s, value_cls(f), 1) # 0
        THEN Raise("TypeError:must be of type")
        ELSE Ok(value)
    ELSE IF ~isinstance(value, value_cls(f)) THEN Raise("TypeError:must be of type")
    ELSE value_clean(value)

\* The error of the first element outside [min, max], "" if every element is
\* inside: the loop of IntegerField.clean over a list value.
RECURSIVE first_range_error(_, _, _)
first_range_error(f, elems, i) ==
    IF i > Len(elems) THEN ""
    ELSE IF f.min # None /\ elems[i].n < f.min.n THEN "ValueError:must be greater than"
    ELSE IF f.max # None /\ elems[i].n > f.max.n THEN "ValueError:must be less than"
    ELSE first_range_error(f, elems, i + 1)

\* IntegerField.clean
IntegerField_clean(f, value, version) ==
    LET r == Field_clean(f, value, version) IN
    IF r.st = "raise" \/ r.val = None THEN r
    ELSE IF is_list(f) THEN
        LET e == first_range_error(f, r.val.s, 1) IN
        IF e # "" THEN Raise(e) ELSE r
    ELSE IF f.min # None /\ r.val.n < f.min.n THEN Raise("ValueError:must be greater than")
    ELSE IF f.max # None /\ r.val.n > f.max.n THEN Raise("ValueError:must be less than")
    ELSE r

\* tuple.index(v) + 1: the 1-based position of the first entry equal to v, 0
\* when v is not in the tuple.
RECURSIVE enum_index(_, _, _)
enum_index(enum, v, i) ==
    IF i > Len(enum) THEN 0
    ELSE IF enum[i] = v THEN i
    ELSE enum_index(enum, v, i + 1)

\* list(value): a str yields its characters, a bytes object its integers; a
\* value that is not iterable raises TypeError.
list_of(value) ==
    CASE value.k = "list" -> Ok(value)
      [] value.k = "str" -> Ok(PyList([i \in 1..Len(value.s) |-> PyStr(<<value.s[i]>>)]))
      [] value.k = "bytes" -> Ok(PyList([i \in 1..Len(value.s) |-> PyInt(value.s[i])]))
      [] OTHER -> Raise("TypeError:object is not iterable")

\* The loop of EnumField.clean over a list: the index of the first str
\* element that is no label of the enum, 0 if there is none.
RECURSIVE first_bad_label(_, _, _)
first_bad_label(enum, elems, i) ==
    IF i > Len(elems) THEN 0
    ELSE IF elems[i].k = "str" /\ enum_index(enum, elems[i].s, 1) = 0 THEN i
    ELSE first_bad_label(enum, elems, i + 1)

\* value[i] = self.enum.index(v) + 1 for every str element.
labels_to_positions(enum, elems) ==
    [i \in 1..Len(elems) |->
        IF elems[i].k = "str" THEN PyInt(enum_index(enum, elems[i].s, 1)) ELSE elems[i]]

\* Python equality of two list elements as set() sees it: numbers compare by
\* value whatever their numeric type.
py_eq(a, b) ==
    IF a.k \in {"bool", "int", "Decimal"} /\ b.k \in {"bool", "int", "Decimal"}
    THEN a.n = b.n
    ELSE a = b

\* len(value) > len(set(value))
has_duplicates(elems) ==
    \E i, j \in 1..Len(elems) : i < j /\ py_eq(elems[i], elems[j])

\* EnumField.clean without the uniqueness check of a list value.
EnumField_clean_no_unique_check(f, value, version) ==
    IF is_list(f) THEN
        LET l == list_of(value) IN
        IF l.st = "raise" THEN l
        ELSE IF first_bad_label(f.enum, l.val.s, 1) # 0 THEN Raise("ValueError:must be one of")
        ELSE LET conv == labels_to_positions(f.enum, l.val.s) IN
             IF Len(conv) = 0 THEN Raise("ValueError:must not be empty")
             ELSE IntegerField_clean(f, PyList(conv), version)
    ELSE IF value.k = "str" THEN
        IF enum_index(f.enum, value.s, 1) = 0 THEN Raise("ValueError:must be one of")
        ELSE IntegerField_clean(f, PyInt(enum_index(f.enum, value.s, 1)), version)
    ELSE IntegerField_clean(f, value, version)

\* EnumField.clean
EnumField_clean(f, value, version) ==
    IF is_list(f) THEN
        LET l == list_of(value) IN
        IF l.st = "raise" THEN l
        ELSE IF first_bad_label(f.enum, l.val.s, 1) # 0 THEN Raise("ValueError:must be one of")
        ELSE LET conv == labels_to_positions(f.enum, l.val.s) IN
             IF Len(conv) = 0 THEN Raise("ValueError:must not be empty")
             ELSE IF has_duplicates(conv) THEN Raise("ValueError:must be unique")
             ELSE IntegerField_clean(f, PyList(conv), version)
    ELSE IF value.k = "str" THEN
        IF enum_index(f.enum, value.s, 1) = 0 THEN Raise("ValueError:must be one of")
        ELSE IntegerField_clean(f, PyInt(enum_index(f.enum, value.s, 1)), version)
    ELSE IntegerField_clean(f, value, version)

\* DateTimeField.clean
DateTimeField_clean(f, value, version) ==
    IF value # None /\ isinstance(value, value_cls(f)) /\ value.s = <<>>
    THEN Raise("ValueError:must be timezone aware")
    ELSE Field_clean(f, value, version)

\* The first element longer than max_length, 0 if there is none.
RECURSIVE first_too_long(_, _, _)
first_too_long(elems, max_length, i) ==
    IF i > Len(elems) THEN 0
    ELSE IF Len(elems[i].s) > max_length THEN i
    ELSE first_too_long(elems, max_length, i + 1)

\* TextField.clean
TextField_clean(f, value, version) ==
    LET r == Field_clean(f, value, version) IN
    IF r.st = "raise" THEN r
    ELSE IF f.max_length # 0 /\ r.val # None THEN
        IF is_list(f) THEN
            IF first_too_long(r.val.s, f.max_length, 1) # 0
            THEN Raise("ValueError:exceeds length") ELSE r
        ELSE IF Len(r.val.s) > f.max_length THEN Raise("ValueError:exceeds length")
        ELSE r
    ELSE r

\* self.value_cls(value): the ExtendedProperty wrapping a simple value; the
\* modelled property type is Integer, so that any other simple value is one
\* the wrapper's own clean() rejects.
wrap_extended(value) == ExtendedProperty(value.n, value.k # "int")

\* ExtendedPropertyField.clean: a value that is no ExtendedProperty is wrapped
\* in one (tmp), tmp is cleaned and the simple value is returned.
ExtendedPropertyField_clean(f, value, version) ==
    IF value = None THEN
        IF f.is_required THEN Raise("ValueError:is a required field")
        ELSE Ok(f.default)
    ELSE IF ~isinstance(value, value_cls(f)) THEN
        LET tmp == wrap_extended(value) IN
        IF value_clean(tmp).st = "raise" THEN value_clean(tmp) ELSE Ok(value)
    ELSE IF value_clean(value).st = "raise" THEN value_clean(value)
    ELSE Ok(value)

\* field.clean(value, version): method resolution over the class of the field.
clean(f, value, version) ==
    CASE f.cls \in {"IntegerField", "DecimalField"} -> IntegerField_clean(f, value, version)
      [] f.cls \in {"EnumField", "EnumListField"} -> EnumField_clean(f, value, version)
      [] f.cls = "DateTimeField" -> DateTimeField_clean(f, value, version)
      [] f.cls \in {"TextField", "TextListField"} -> TextField_clean(f, value, version)
      [] f.cls = "ExtendedPropertyField" -> ExtendedPropertyField_clean(f, value, version)
      [] OTHER -> Field_clean(f, value, version)

-----------------------------------------------------------------------------
(* Strings *)

\* str.split(delim): the segments between the non-overlapping occurrences of
\* delim, scanned from the left.
RECURSIVE split_from(_, _, _, _, _)
split_from(s, delim, i, cur, acc) ==
    IF i > Len(s) THEN Append(acc, cur)
    ELSE IF i + Len(delim) - 1 <= Len(s) /\ SubSeq(s, i, i + Len(delim) - 1) = delim
    THEN split_from(s, delim, i + Len(delim), <<>>, Append(acc, cur))
    ELSE split_from(s, delim, i + 1, Append(cur, s[i]), acc)

str_split(s, delim) == split_from(s, delim, 1, <<>>, <<>>)

\* delim.join(parts)
RECURSIVE str_join(_, _)
str_join(delim, parts) ==
    IF Len(parts) = 0 THEN <<>>
    ELSE IF Len(parts) = 1 THEN parts[1]
    ELSE parts[1] \o delim \o str_join(delim, Tail(parts))

Digits == <<"0", "1", "2", "3", "4", "5", "6", "7", "8", "9">>

IsDigit(c) == \E d \in 1..Len(Digits) : Digits[d] = c

DigitValue(c) == (CHOOSE d \in 1..Len(Digits) : Digits[d] = c) - 1

\* text_type(n) of an int or an integral Decimal: decimal digits, with a
\* leading '-' for a negative number.
RECURSIVE nat_to_text(_)
nat_to_text(n) ==
    IF n < 10 THEN <<Digits[n + 1]>>
    ELSE nat_to_text(n \div 10) \o <<Digits[(n % 10) + 1]>>

int_to_text(n) == IF n < 0 THEN <<"-">> \o nat_to_text(0 - n) ELSE nat_to_text(n)

RECURSIVE digits_value(_, _)
digits_value(s, acc) ==
    IF Len(s) = 0 THEN acc
    ELSE digits_value(Tail(s), 10 * acc + DigitValue(Head(s)))

\* The text is an optional sign followed by at least one digit: what int()
\* and Decimal() parse among the texts of the model.
IsNumeral(s) ==
    LET body == IF Len(s) > 0 /\ s[1] \in {"-", "+"} THEN Tail(s) ELSE s IN
    /\ Len(body) > 0
    /\ \A i \in 1..Len(body) : IsDigit(body[i])

numeral_value(s) ==
    IF s[1] = "-" THEN 0 - digits_value(Tail(s), 0)
    ELSE IF s[1] = "+" THEN digits_value(Tail(s), 0)
    ELSE digits_value(s, 0)

-----------------------------------------------------------------------------
(* base64 *)

B64Alphabet ==
    << "A", "B", "C", "D", "E", "F", "G", "H", "I", "J", "K", "L", "M", "N", "O", "P",
       "Q", "R", "S", "T", "U", "V", "W", "X", "Y", "Z", "a", "b", "c", "d", "e", "f",
       "g", "h", "i", "j", "k", "l", "m", "n", "o", "p", "q", "r", "s", "t", "u", "v",
       "w", "x", "y", "z", "0", "1", "2", "3", "4", "5", "6", "7", "8", "9", "+", "/" >>

B64Char(sextet) == B64Alphabet[sextet + 1]

IsB64Char(c) == \E i \in 1..Len(B64Alphabet) : B64Alphabet[i] = c

B64Value(c) == (CHOOSE i \in 1..Len(B64Alphabet) : B64Alphabet[i] = c) - 1

\* base64.b64encode(value).decode('ascii')
RECURSIVE b64encode(_)
b64encode(bs) ==
    IF Len(bs) = 0 THEN <<>>
    ELSE IF Len(bs) = 1 THEN
        << B64Char(bs[1] \div 4), B64Char((bs[1] % 4) * 16), "=", "=" >>
    ELSE IF Len(bs) = 2 THEN
        << B64Char(bs[1] \div 4), B64Char((bs[1] % 4) * 16 + bs[2] \div 16),
           B64Char((bs[2] % 16) * 4), "=" >>
    ELSE << B64Char(bs[1] \div 4), B64Char((bs[1] % 4) * 16 + bs[2] \div 16),
            B64Char((bs[2] % 16) * 4 + bs[3] \div 64), B64Char(bs[3] % 64) >>
         \o b64encode(SubSeq(bs, 4, Len(bs)))

\* The bytes of a sequence of sextets whose length is not 1 modulo 4.
RECURSIVE sextets_to_bytes(_)
sextets_to_bytes(q) ==
    IF Len(q) < 2 THEN <<>>
    ELSE IF Len(q) = 2 THEN << q[1] * 4 + q[2] \div 16 >>
    ELSE IF Len(q) = 3 THEN << q[1] * 4 + q[2] \div 16, (q[2] % 16) * 16 + q[3] \div 4 >>
    ELSE << q[1] * 4 + q[2] \div 16, (q[2] % 16) * 16 + q[3] \div 4, (q[3] % 4) * 64 + q[4] >>
         \o sextets_to_bytes(SubSeq(q, 5, Len(q)))

\* base64.b64decode(val): characters outside the alphabet are discarded; the
\* data characters must come in groups of four, a last group of two or three
\* completed by '=' padding, or binascii.Error is raised.
b64decode(text) ==
    LET data == SelectSeq(text, IsB64Char)
        pads == Len(SelectSeq(text, LAMBDA c : c = "="))
        rest == Len(data) % 4
    IN  IF rest = 1 \/ (rest = 2 /\ pads < 2) \/ (rest = 3 /\ pads < 1)
        THEN Raise("binascii.Error:Incorrect padding")
        ELSE Ok(PyBytes(sextets_to_bytes([i \in 1..Len(data) |-> B64Value(data[i])])))

-----------------------------------------------------------------------------
(* Wire elements: an element has a tag and a text (None or a str); the       *)
(* parent handed to from_xml is the sequence of its children.               *)

Elem(tag, text) == [tag |-> tag, text |-> text]

\* The namespace-qualified tag '{TNS}name', TNS abbreviated.
TNS == <<"{", "t", "}">>

\* FieldURIField.__init__: field_uri_postfix
field_uri_postfix(f) ==
    IF \E i \in 1..Len(f.field_uri) : f.field_uri[i] = ":"
    THEN str_split(f.field_uri, <<":">>)[2]
    ELSE f.field_uri

\* FieldURIField.request_tag
request_tag(f) == <<"t", ":">> \o field_uri_postfix(f)

\* FieldURIField.response_tag
response_tag(f) == TNS \o field_uri_postfix(f)

\* util.create_element(name): the prefix 't:' names the namespace TNS.
create_element(name) ==
    IF Len(name) >= 2 /\ SubSeq(name, 1, 2) = <<"t", ":">>
    THEN Elem(TNS \o SubSeq(name, 3, Len(name)), None)
    ELSE Elem(name, None)

\* util.value_to_xml_text(value) for the scalar values a field encodes.
value_to_xml_text(value) ==
    CASE value.k = "str" -> value.s
      [] value.k = "bool" -> IF value.n = 1 THEN <<"t", "r", "u", "e">> ELSE <<"f", "a", "l", "s", "e">>
      [] value.k \in {"int", "Decimal"} -> int_to_text(value.n)
      [] value.k = "EWSDate" -> <<"D">> \o int_to_text(value.n)
      [] value.k = "EWSDateTime" -> <<"T">> \o int_to_text(value.n) \o <<"Z">>

\* util.set_xml_value(elem, value, version) for a scalar value: sets the text.
set_xml_value(elem, value, version) == [elem EXCEPT !.text = PyStr(value_to_xml_text(value))]

\* elem.find(tag): the first child with the tag, None if there is none.
RECURSIVE find(_, _)
find(children, tag) ==
    IF Len(children) = 0 THEN None
    ELSE IF children[1].tag = tag THEN children[1]
    ELSE find(Tail(children), tag)

\* val = None if field_elem is None else field_elem.text or None
text_or_None(field_elem) ==
    IF field_elem = None THEN None
    ELSE IF truthy(field_elem.text) THEN field_elem.text
    ELSE None

\* EWSDate.from_string(val): the texts 'D<day>' are the well-formed dates.
EWSDate_from_string(s) ==
    IF Len(s) >= 2 /\ s[1] = "D" /\ IsNumeral(Tail(s)) /\ IsDigit(s[2])
    THEN Ok(EWSDate(numeral_value(Tail(s))))
    ELSE Raise("ValueError")

\* EWSDateTime.from_string(val): 'T<instant>Z' is a timezone-aware datetime,
\* 'T<instant>' a naive one, reported as NaiveDateTimeNotAllowed(local_dt).
EWSDateTime_from_string(s) ==
    IF Len(s) >= 3 /\ s[1] = "T" /\ s[Len(s)] = "Z"
       /\ IsNumeral(SubSeq(s, 2, Len(s) - 1)) /\ IsDigit(s[2])
    THEN Ok(EWSDateTime(numeral_value(SubSeq(s, 2, Len(s) - 1)), <<"UTC">>))
    ELSE IF Len(s) >= 2 /\ s[1] = "T" /\ IsNumeral(Tail(s)) /\ IsDigit(s[2])
    THEN [st |-> "raise", err |-> "NaiveDateTimeNotAllowed",
          val |-> EWSDateTime(numeral_value(Tail(s)), <<>>)]
    ELSE Raise("ValueError")

\* account.default_timezone
default_timezone == <<"CET">>

-----------------------------------------------------------------------------
(* from_xml and to_xml of the scalar field classes *)

\* BooleanField.from_xml
BooleanField_from_xml(f, elem) ==
    LET val == text_or_None(find(elem, response_tag(f))) IN
    IF val # None THEN
        IF val.s = <<"t", "r", "u", "e">> THEN Ok(PyBool(TRUE))
        ELSE IF val.s = <<"f", "a", "l", "s", "e">> THEN Ok(PyBool(FALSE))
        ELSE Ok(None)
    ELSE Ok(f.default)

\* IntegerField.from_xml, with value_cls int: int(val) raises ValueError,
\* which is caught.
IntegerField_from_xml(f, elem) ==
    LET val == text_or_None(find(elem, response_tag(f))) IN
    IF val # None THEN
        IF IsNumeral(val.s) THEN Ok(PyInt(numeral_value(val.s)))
        ELSE Ok(None)
    ELSE Ok(f.default)

\* IntegerField.from_xml as DecimalField inherits it, with value_cls Decimal:
\* Decimal(val) raises decimal.InvalidOperation, an ArithmeticError, which
\* "except ValueError" does not catch.
DecimalField_from_xml(f, elem) ==
    LET val == text_or_None(find(elem, response_tag(f))) IN
    IF val # None THEN
        IF IsNumeral(val.s) THEN Ok(PyDecimal(numeral_value(val.s)))
        ELSE Raise("decimal.InvalidOperation")
    ELSE Ok(f.default)

\* EnumField.from_xml
EnumField_from_xml(f, elem) ==
    LET val == text_or_None(find(elem, response_tag(f))) IN
    IF val # None THEN
        IF is_list(f) THEN
            LET toks == str_split(val.s, <<" ">>) IN
            IF \E i \in 1..Len(toks) : enum_index(f.enum, toks[i], 1) = 0
            THEN Ok(None)
            ELSE Ok(PyList([i \in 1..Len(toks) |-> PyInt(enum_index(f.enum, toks[i], 1))]))
        ELSE IF enum_index(f.enum, val.s, 1) = 0 THEN Ok(None)
        ELSE Ok(PyInt(enum_index(f.enum, val.s, 1)))
    ELSE Ok(f.default)

\* Base64Field.from_xml
Base64Field_from_xml(f, elem) ==
    LET val == text_or_None(find(elem, response_tag(f))) IN
    IF val # None THEN b64decode(val.s)
    ELSE Ok(f.default)

\* DateField.from_xml
DateField_from_xml(f, elem) ==
    LET val == text_or_None(find(elem, response_tag(f))) IN
    IF val # None THEN
        IF EWSDate_from_string(val.s).st = "ok" THEN EWSDate_from_string(val.s)
        ELSE Ok(None)
    ELSE Ok(f.default)

\* DateTimeField.from_xml
DateTimeField_from_xml(f, elem) ==
    LET val == text_or_None(find(elem, response_tag(f))) IN
    IF val # None THEN
        LET r == EWSDateTime_from_string(val.s) IN
        IF r.st = "ok" THEN r
        ELSE IF r.err = "NaiveDateTimeNotAllowed"
        THEN Ok(EWSDateTime(r.val.n, default_timezone))
        ELSE Ok(None)
    ELSE Ok(f.default)

\* TextField.from_xml
TextField_from_xml(f, elem) ==
    LET val == text_or_None(find(elem, response_tag(f))) IN
    IF val # None THEN Ok(val)
    ELSE Ok(f.default)

\* field.from_xml(elem, account)
from_xml(f, elem) ==
    CASE f.cls = "BooleanField" -> BooleanField_from_xml(f, elem)
      [] f.cls = "IntegerField" -> IntegerField_from_xml(f, elem)
      [] f.cls = "DecimalField" -> DecimalField_from_xml(f, elem)
      [] f.cls \in {"EnumField", "EnumListField"} -> EnumField_from_xml(f, elem)
      [] f.cls = "Base64Field" -> Base64Field_from_xml(f, elem)
      [] f.cls = "DateField" -> DateField_from_xml(f, elem)
      [] f.cls = "DateTimeField" -> DateTimeField_from_xml(f, elem)
      [] f.cls = "TextField" -> TextField_from_xml(f, elem)

\* FieldURIField.to_xml
FieldURIField_to_xml(f, value, version) ==
    Ok(set_xml_value(create_element(request_tag(f)), value, version))

\* sorted(value) of a list of integers
RECURSIVE sorted(_)
sorted(elems) ==
    IF Len(elems) = 0 THEN <<>>
    ELSE LET m == CHOOSE i \in 1..Len(elems) :
                    \A j \in 1..Len(elems) : elems[i].n < elems[j].n \/ (elems[i].n = elems[j].n /\ i <= j)
         IN <<elems[m]>> \o sorted([i \in 1..(Len(elems) - 1) |-> IF i < m THEN elems[i] ELSE elems[i + 1]])

\* self.enum[v - 1]: a negative index counts from the end of the tuple.
enum_at(enum, v) ==
    IF v - 1 >= 0 THEN enum[v] ELSE enum[Len(enum) + v]

\* EnumField.to_xml writing the position of a scalar value instead of its label.
EnumField_to_xml_position_text(f, value, version) ==
    IF is_list(f) THEN
        LET vs == sorted(value.s) IN
        Ok(set_xml_value(create_element(request_tag(f)),
                         PyStr(str_join(<<" ">>, [i \in 1..Len(vs) |-> enum_at(f.enum, vs[i].n)])),
                         version))
    ELSE Ok(set_xml_value(create_element(request_tag(f)), value, version))

\* EnumField.to_xml
EnumField_to_xml(f, value, version) ==
    IF is_list(f) THEN
        LET vs == sorted(value.s) IN
        Ok(set_xml_value(create_element(request_tag(f)),
                         PyStr(str_join(<<" ">>, [i \in 1..Len(vs) |-> enum_at(f.enum, vs[i].n)])),
                         version))
    ELSE Ok(set_xml_value(create_element(request_tag(f)), PyStr(enum_at(f.enum, value.n)), version))

\* Base64Field.to_xml
Base64Field_to_xml(f, value, version) ==
    Ok(set_xml_value(create_element(request_tag(f)), PyStr(b64encode(value.s)), version))

\* field.to_xml(value, version)
to_xml(f, value, version) ==
    CASE f.cls \in {"EnumField", "EnumListField"} -> EnumField_to_xml(f, value, version)
      [] f.cls = "Base64Field" -> Base64Field_to_xml(f, value, version)
      [] OTHER -> FieldURIField_to_xml(f, value, version)

\* The classes whose to_xml and from_xml are modelled.
CodecClasses ==
    {"BooleanField", "IntegerField", "DecimalField", "EnumField", "EnumListField",
     "Base64Field", "DateField", "DateTimeField", "TextField"}

-----------------------------------------------------------------------------
(* Choices, indexed value classes and the folder's schema *)

\* Choice.__init__
Choice(value, supported_from) == [value |-> value, supported_from |-> supported_from]

\* Choice.supports_version
Choice_supports_version(c, version) ==
    IF c.supported_from = NoBuild \/ version = NoBuild
    THEN TRUE
    ELSE version >= c.supported_from

\* ChoiceField.supported_choices ignoring the version.
supported_choices_any_version(choices, version) ==
    { choices[i].value : i \in 1..Len(choices) }

\* ChoiceField.supported_choices: the set of the values of the choices that
\* support the version.
supported_choices(choices, version) ==
    { choices[i].value : i \in { j \in 1..Len(choices) : Choice_supports_version(choices[j], version) } }

\* The loop of ChoiceField.clean over self.choices, in iteration order.
RECURSIVE first_choice(_, _, _, _)
first_choice(choices, value, version, i) ==
    IF i > Len(choices) THEN Raise("ValueError:invalid choice")
    ELSE IF choices[i].value # value.s THEN first_choice(choices, value, version, i + 1)
    ELSE IF ~Choice_supports_version(choices[i], version) THEN Raise("ErrorInvalidServerVersion")
    ELSE Ok(value)

\* ChoiceField.clean, choices being self.choices in iteration order
ChoiceField_clean(f, choices, value, version) ==
    LET r == TextField_clean(f, value, version) IN
    IF r.st = "raise" THEN r
    ELSE IF r.val = None THEN Ok(None)
    ELSE first_choice(choices, r.val, version, 1)

\* A sub-field descriptor of an indexed value class.
SubFieldDescr(cls, name, field_uri, supported_from) ==
    Field(cls, name, field_uri, FALSE, None, supported_from, None, None, <<>>, 0)

\* value_cls.LABEL_FIELD.choices: the label 'W' exists from build MaxBuild on.
LABEL_FIELD_choices(vc) == << Choice(<<"H">>, NoBuild), Choice(<<"W">>, MaxBuild) >>

\* value_cls.FIELDS without the label field: the single value sub-field of
\* an EmailAddress; the named sub-fields of a PhysicalAddress, of which 'z'
\* exists from build MaxBuild on.
FIELDS(vc) ==
    IF vc = "EmailAddress"
    THEN << SubFieldDescr("EmailSubField", <<"v">>, <<>>, NoBuild) >>
    ELSE << SubFieldDescr("NamedSubField", <<"c">>, <<"C">>, NoBuild),
            SubFieldDescr("NamedSubField", <<"z">>, <<"Z">>, MaxBuild) >>

\* value_cls.supported_fields(version)
supported_fields(vc, version) ==
    SelectSeq(FIELDS(vc), LAMBDA sf : supports_version(sf, version))

\* value_cls.get_field_by_fieldname(name): ValueError when the class declares
\* no field of the name.
get_field_by_fieldname(vc, name) ==
    IF \E i \in 1..Len(FIELDS(vc)) : FIELDS(vc)[i].name = name
    THEN Ok(FIELDS(vc)[CHOOSE i \in 1..Len(FIELDS(vc)) : FIELDS(vc)[i].name = name])
    ELSE Raise("ValueError:unknown field")

\* SingleFieldIndexedElement.value_field(version): the one value sub-field.
value_field(vc, version) == FIELDS(vc)[1]

\* issubclass(value_cls, MultiFieldIndexedElement)
IsMultiField(vc) == vc = "PhysicalAddress"

\* issubclass(value_cls, SingleFieldIndexedElement)
IsSingleField(vc) == vc = "EmailAddress"

\* isinstance(field, IndexedField)
IsIndexedField(f) == f.cls \in {"EmailAddressField", "PhysicalAddressField"}

\* The item fields of the folder: a text field 's', the single-field indexed
\* collection 'e_a' and the multi-field indexed collection 'p_a'.
ItemFields ==
    << Field("TextField", <<"s">>, <<"i", ":", "S">>, FALSE, None, NoBuild, None, None, <<>>, 0),
       Field("EmailAddressField", <<"e", "_", "a">>, <<"c", ":", "E">>, FALSE, None, NoBuild, None, None, <<>>, 0),
       Field("PhysicalAddressField", <<"p", "_", "a">>, <<"c", ":", "P">>, FALSE, None, NoBuild, None, None, <<>>, 0) >>

\* folder.get_item_field_by_fieldname(fieldname): ValueError for a name that
\* no item field has.
get_item_field_by_fieldname(fieldname) ==
    IF \E i \in 1..Len(ItemFields) : ItemFields[i].name = fieldname
    THEN Ok(ItemFields[CHOOSE i \in 1..Len(ItemFields) : ItemFields[i].name = fieldname])
    ELSE Raise("ValueError:unknown field")

-----------------------------------------------------------------------------
(* Field paths *)

\* split_field_path returning no third part.
split_field_path_two_parts(field_path) ==
    LET search_parts == str_split(field_path, <<"_", "_">>) IN
    << PyStr(search_parts[1]),
       IF Len(search_parts) >= 2 THEN PyStr(search_parts[2]) ELSE None,
       None >>

\* split_field_path, for a str: (field, label, subfield), the second and the
\* third None when str.split yields no such part.
split_field_path(field_path) ==
    LET search_parts == str_split(field_path, <<"_", "_">>) IN
    << PyStr(search_parts[1]),
       IF Len(search_parts) >= 2 THEN PyStr(search_parts[2]) ELSE None,
       IF Len(search_parts) >= 3 THEN PyStr(search_parts[3]) ELSE None >>

\* The triple that resolve_field_path returns.
Triple(field, label, subfield) == [field |-> field, label |-> label, subfield |-> subfield]

\* resolve_field_path, the branch of a MultiFieldIndexedElement value class
\* without the check that strict mode makes of the sub-field name.
resolve_multi_field_no_strict_check(field, label, subfieldname, strict) ==
    IF truthy(subfieldname) THEN
        IF get_field_by_fieldname(value_cls(field), subfieldname.s).st = "raise"
        THEN Raise("ValueError:subfield must be one of")
        ELSE Ok(Triple(field, label, get_field_by_fieldname(value_cls(field), subfieldname.s).val))
    ELSE Ok(Triple(field, label, None))

\* resolve_field_path, the branch of a MultiFieldIndexedElement value class
resolve_multi_field(field, label, subfieldname, strict) ==
    IF strict /\ ~truthy(subfieldname) THEN Raise("ValueError:must specify subfield")
    ELSE IF truthy(subfieldname) THEN
        IF get_field_by_fieldname(value_cls(field), subfieldname.s).st = "raise"
        THEN Raise("ValueError:subfield must be one of")
        ELSE Ok(Triple(field, label, get_field_by_fieldname(value_cls(field), subfieldname.s).val))
    ELSE Ok(Triple(field, label, None))

\* resolve_field_path, the branch of a SingleFieldIndexedElement value class
\* accepting a sub-field name.
resolve_single_field_any_subfieldname(field, label, subfieldname, version) ==
    IF ~IsSingleField(value_cls(field)) THEN Raise("AssertionError")
    ELSE Ok(Triple(field, label, value_field(value_cls(field), version)))

\* resolve_field_path, the branch of a SingleFieldIndexedElement value class
resolve_single_field(field, label, subfieldname, version) ==
    IF ~IsSingleField(value_cls(field)) THEN Raise("AssertionError")
    ELSE IF truthy(subfieldname) THEN Raise("ValueError:must not specify subfield")
    ELSE Ok(Triple(field, label, value_field(value_cls(field), version)))

\* resolve_field_path, the branch of a field that is no IndexedField testing
\* the label only.
resolve_plain_field_label_only(field, label, subfieldname) ==
    IF truthy(label)
    THEN Raise("ValueError:must not specify label or subfield")
    ELSE Ok(Triple(field, label, None))

\* resolve_field_path, the branch of a field that is no IndexedField
resolve_plain_field(field, label, subfieldname) ==
    IF truthy(label) \/ truthy(subfieldname)
    THEN Raise("ValueError:must not specify label or subfield")
    ELSE Ok(Triple(field, label, None))

\* resolve_field_path(field_path, folder, strict), the account of the folder
\* having the given version.
resolve_field_path(field_path, version, strict) ==
    LET parts == split_field_path(field_path)
        fieldname == parts[1]
        label == parts[2]
        subfieldname == parts[3]
        found == get_item_field_by_fieldname(fieldname.s)
        field == found.val
    IN  IF found.st = "raise" THEN found
        ELSE IF IsIndexedField(field) THEN
            IF strict /\ ~truthy(label) THEN Raise("ValueError:must specify label")
            ELSE IF /\ truthy(label)
                    /\ label.s \notin supported_choices(LABEL_FIELD_choices(value_cls(field)), version)
            THEN Raise("ValueError:label must be one of")
            ELSE IF IsMultiField(value_cls(field))
            THEN resolve_multi_field(field, label, subfieldname, strict)
            ELSE resolve_single_field(field, label, subfieldname, version)
        ELSE resolve_plain_field(field, label, subfieldname)

\* FieldPath.__init__: the assertions on the three arguments.
FieldPath(field, label, subfield) ==
    IF field.cls \in {"SubField", "EmailSubField", "NamedSubField"} THEN Raise("AssertionError")
    ELSE IF truthy(label) /\ label.k # "str" THEN Raise("AssertionError")
    ELSE IF subfield # None /\ subfield.cls \notin {"SubField", "EmailSubField", "NamedSubField"}
    THEN Raise("AssertionError")
    ELSE Ok(Triple(field, label, subfield))

\* FieldPath.from_string(s, folder, strict)
FieldPath_from_string(s, version, strict) ==
    LET r == resolve_field_path(s, version, strict) IN
    IF r.st = "raise" THEN r
    ELSE FieldPath(r.val.field, r.val.label, r.val.subfield)

\* The orders in which a set can be iterated.
Orders(S) == { o \in [1..Cardinality(S) -> S] : \A i, j \in 1..Cardinality(S) : i # j => o[i] # o[j] }

\* The nested loops of FieldPath.expand over the labels and the sub-fields.
RECURSIVE product(_, _, _)
product(field, labels, subfields) ==
    IF Len(labels) = 0 THEN <<>>
    ELSE [i \in 1..Len(subfields) |-> FieldPath(field, PyStr(labels[1]), subfields[i]).val]
         \o product(field, Tail(labels), subfields)

\* FieldPath.expand(version) expanding to every declared sub-field.
FieldPath_expand_declared_fields(self, version, label_order) ==
    IF IsIndexedField(self.field) THEN
        LET labels == IF truthy(self.label) THEN <<self.label.s>> ELSE label_order
            subfields == IF self.subfield # None THEN <<self.subfield>>
                         ELSE FIELDS(value_cls(self.field))
        IN product(self.field, labels, subfields)
    ELSE <<self>>

\* FieldPath.expand(version): the sequence of the paths it yields, the set of
\* the supported label choices being iterated in the order label_order.
FieldPath_expand(self, version, label_order) ==
    IF IsIndexedField(self.field) THEN
        LET labels == IF truthy(self.label) THEN <<self.label.s>> ELSE label_order
            subfields == IF self.subfield # None THEN <<self.subfield>>
                         ELSE supported_fields(value_cls(self.field), version)
        IN product(self.field, labels, subfields)
    ELSE <<self>>

\* FieldPath.path without the sub-field part.
FieldPath_path_without_subfield(self) ==
    IF truthy(self.label)
    THEN self.field.name \o <<"_", "_">> \o self.label.s
    ELSE self.field.name

\* FieldPath.path: the string form of a path
FieldPath_path(self) ==
    IF truthy(self.label) THEN
        IF IsSingleField(value_cls(self.field)) \/ self.subfield = None
        THEN self.field.name \o <<"_", "_">> \o self.label.s
        ELSE self.field.name \o <<"_", "_">> \o self.label.s \o <<"_", "_">> \o self.subfield.name
    ELSE self.field.name

\* An element with the attributes FieldURI and FieldIndex (None when not set).
URIElem(tag, FieldURI, FieldIndex) == [tag |-> tag, FieldURI |-> FieldURI, FieldIndex |-> FieldIndex]

\* SubField.field_uri_xml and NamedSubField.field_uri_xml
SubField_field_uri_xml(subfield, field_uri, label) ==
    IF subfield.cls = "NamedSubField"
    THEN Ok(URIElem(<<"t", ":", "IndexedFieldURI">>,
                    PyStr(field_uri \o <<":">> \o subfield.field_uri), label))
    ELSE Ok(URIElem(<<"t", ":", "IndexedFieldURI">>, PyStr(field_uri), label))

\* FieldURIField.field_uri_xml
FieldURIField_field_uri_xml(f) ==
    IF f.field_uri = <<>> THEN Raise("AssertionError")
    ELSE Ok(URIElem(<<"t", ":", "FieldURI">>, PyStr(f.field_uri), None))

\* FieldPath.to_xml
FieldPath_to_xml(self) ==
    IF IsIndexedField(self.field) THEN
        IF ~truthy(self.label) \/ self.subfield = None
        THEN Raise("ValueError:missing label and/or subfield")
        ELSE SubField_field_uri_xml(self.subfield, self.field.field_uri, self.label)
    ELSE FieldURIField_field_uri_xml(self.field)

\* s.lstrip(chars) for a single character: every leading occurrence is removed
RECURSIVE str_lstrip(_, _)
str_lstrip(s, c) ==
    IF Len(s) > 0 /\ s[1] = c THEN str_lstrip(Tail(s), c) ELSE s

\* s.startswith(prefix)
str_startswith(s, prefix) ==
    Len(s) >= Len(prefix) /\ SubSeq(s, 1, Len(prefix)) = prefix

\* FieldOrder.__init__
FieldOrder(field_path, reverse) == [field_path |-> field_path, reverse |-> reverse]

\* FieldOrder.from_string(s, folder)
FieldOrder_from_string(s, version) ==
    LET field_path == FieldPath_from_string(str_lstrip(s, "-"), version, TRUE)
        reverse == str_startswith(s, <<"-">>)
    IN  IF field_path.st = "raise" THEN field_path
        ELSE Ok(FieldOrder(field_path.val, reverse))

\* The identifying attributes of an extended property, abbreviated:
\* DistinguishedPropertySetId, PropertyName, PropertyType.
PropertyAttrs == {"D", "N", "T"}

\* value_cls.properties_map(): the identifying attributes that the value
\* class declares, with their values; cls holds None for the others.
properties_map(cls) ==
    [ k \in { a \in PropertyAttrs : cls[a] # None } |-> cls[k] ]

\* value_cls.from_xml(elem, account): the value of the element.
ExtendedProperty_from_xml(elem) == Ok(elem.value)

\* ExtendedPropertyField.from_xml decoding the first element, matching or not.
ExtendedPropertyField_from_xml_first_element(f, cls, extended_properties) ==
    IF Len(extended_properties) = 0 THEN Ok(f.default)
    ELSE ExtendedProperty_from_xml(extended_properties[1])

\* ExtendedPropertyField.from_xml, extended_properties being the elements
\* that elem.findall returns, in document order: each is a record of the
\* attributes of its ExtendedFieldURI child (None for an attribute that is
\* not there) and of its value.
RECURSIVE ExtendedPropertyField_from_xml(_, _, _)
ExtendedPropertyField_from_xml(f, cls, extended_properties) ==
    IF Len(extended_properties) = 0 THEN Ok(f.default)
    ELSE LET extended_field_uri == extended_properties[1].uri
             match == \A k \in DOMAIN properties_map(cls) :
                          extended_field_uri[k] = properties_map(cls)[k]
         IN  IF match THEN ExtendedProperty_from_xml(extended_properties[1])
             ELSE ExtendedPropertyField_from_xml(f, cls, Tail(extended_properties))

\* An element of an indexed collection: its label and its sub-field values
\* by sub-field name.
SubItem(label, names, values) == [k |-> "subitem", label |-> label, names |-> names, values |-> values]

\* getattr(subitem, name)
getattr(subitem, name) ==
    IF \E i \in 1..Len(subitem.names) : subitem.names[i] = name
    THEN Ok(subitem.values[CHOOSE i \in 1..Len(subitem.names) : subitem.names[i] = name])
    ELSE Raise("AttributeError")

\* The loop of FieldPath.get_value over the elements of the attribute.
RECURSIVE first_with_label(_, _, _)
first_with_label(self, subitems, i) ==
    IF i > Len(subitems) THEN Ok(None)
    ELSE IF subitems[i].label = self.label THEN
        IF self.subfield # None THEN getattr(subitems[i], self.subfield.name)
        ELSE Ok(subitems[i])
    ELSE first_with_label(self, subitems, i + 1)

\* FieldPath.get_value(item), attr being getattr(item, self.field.name):
\* iterating an attribute that is None raises TypeError.
FieldPath_get_value(self, attr) ==
    IF truthy(self.label) THEN
        IF attr.k # "list" THEN Raise("TypeError:object is not iterable")
        ELSE first_with_label(self, attr.s, 1)
    ELSE Ok(attr)

\* hash(v) of None, of a str and of a tuple of hashes: values have the same
\* hash exactly when they are equal.
py_hash(v) == [hash_of |-> v]

\* __hash__ of the descriptors: hash(self.field_uri) for a FieldURIField and
\* an IndexedField, hash(self.name) for a SubField and an
\* ExtendedPropertyField.
Field_hash(f) ==
    IF f.cls \in {"SubField", "EmailSubField", "NamedSubField", "ExtendedPropertyField"}
    THEN py_hash(PyStr(f.name))
    ELSE py_hash(IF f.field_uri = <<>> THEN None ELSE PyStr(f.field_uri))

\* FieldPath.__hash__: hash((self.field, self.label, self.subfield))
FieldPath_hash(self) ==
    py_hash(<< Field_hash(self.field),
               py_hash(self.label),
               IF self.subfield = None THEN py_hash(None) ELSE Field_hash(self.subfield) >>)

\* FieldPath.__eq__
FieldPath_eq(self, other) == FieldPath_hash(self) = FieldPath_hash(other)

-----------------------------------------------------------------------------
(* The schema and the inputs of the model *)

\* Text fields of the model are declared with max_length = MaxLength, or
\* with max_length = None.
MaxLength == 2

Builds == 1..MaxBuild
Versions == {NoBuild} \cup Builds

WEEKDAYS == << <<"M", "o">>, <<"T", "u">>, <<"W", "e">> >>

\* A default that the field's own clean() accepts, per class.
a_default(cls) ==
    CASE cls = "BooleanField" -> PyBool(TRUE)
      [] cls \in {"IntegerField", "EnumField"} -> PyInt(2)
      [] cls = "DecimalField" -> PyDecimal(2)
      [] cls = "EnumListField" -> PyList(<<PyInt(2)>>)
      [] cls = "Base64Field" -> PyBytes(<<7>>)
      [] cls = "DateField" -> EWSDate(1)
      [] cls = "DateTimeField" -> EWSDateTime(1, <<"UTC">>)
      [] cls = "TextField" -> PyStr(<<"d">>)
      [] cls = "TextListField" -> PyList(<<PyStr(<<"d">>)>>)
      [] cls = "ExtendedPropertyField" -> PyInt(2)

FieldClasses ==
    {"BooleanField", "IntegerField", "DecimalField", "EnumField", "EnumListField",
     "Base64Field", "DateField", "DateTimeField", "TextField", "TextListField",
     "ExtendedPropertyField"}

\* The descriptors of the model: every class, required or not, with and
\* without a default, with and without supported_from; integer and decimal
\* fields with and without a [1, 3] range; enumerated fields get min = 1 and
\* max = len(enum) from EnumField.__init__.
Fields ==
    UNION { UNION { { Field(cls, <<"f">>, <<"i", ":", "F">>, req, dflt, sf, mm[1], mm[2], en, ml) :
                        req \in BOOLEAN, dflt \in {None, a_default(cls)} } :
                    sf \in {NoBuild, MaxBuild},
                    mm \in (CASE cls \in {"IntegerField", "DecimalField"} ->
                                    { <<None, None>>, <<PyInt(1), PyInt(3)>> }
                               [] cls \in {"EnumField", "EnumListField"} ->
                                    { <<PyInt(1), PyInt(Len(WEEKDAYS))>> }
                               [] OTHER -> { <<None, None>> }),
                    en \in (IF cls \in {"EnumField", "EnumListField"}
                            THEN {WEEKDAYS} ELSE {<<>>}),
                    ml \in (IF cls \in {"TextField", "TextListField"}
                            THEN {0, MaxLength} ELSE {0}) } :
            cls \in FieldClasses }

\* Scalar values offered to clean().
ScalarValues ==
    {None, PyBool(TRUE), PyBool(FALSE)}
    \cup { PyInt(i) : i \in -1..MaxInt }
    \cup { PyDecimal(i) : i \in {0, 2, MaxInt} }
    \cup { PyStr(s) : s \in { <<>>, <<"M", "o">>, <<"W", "e">>, <<"z", "z">>, <<"a", "b", "c">> } }
    \cup { PyBytes(b) : b \in { <<>>, <<1>>, <<1, 2>> } }
    \cup { EWSDate(1), EWSDateTime(1, <<"UTC">>), EWSDateTime(1, <<>>) }
    \cup { ExtendedProperty(1, FALSE), ExtendedProperty(1, TRUE) }

\* Elements of the lists offered to clean().
ListElements ==
    { None, PyInt(0), PyInt(1), PyInt(3), PyInt(MaxInt),
      PyStr(<<"M", "o">>), PyStr(<<"W", "e">>), PyStr(<<"z", "z">>), PyStr(<<"a", "b", "c">>) }

SeqsUpTo(S, n) == UNION { [1..m -> S] : m \in 0..n }

ListValues == { PyList(l) : l \in SeqsUpTo(ListElements, MaxList) }

\* The values offered to a field: every scalar; every list for a list field,
\* the lists of at most one element for a scalar field.
ValuesFor(f) ==
    ScalarValues \cup
    (IF is_list(f) THEN ListValues ELSE { PyList(l) : l \in SeqsUpTo(ListElements, 1) })

\* Element texts that arrive on the wire: absent, empty, and well-formed and
\* malformed texts of every kind.
WireTexts ==
    {None} \cup
    { PyStr(s) : s \in { <<>>, <<"t", "r", "u", "e">>, <<"f", "a", "l", "s", "e">>, <<"1">>,
                         <<"2">>, <<"-", "1">>, <<"1", "2">>, <<"x">>, <<"2", "x">>, <<"-">>,
                         <<"M", "o">>, <<"W", "e">>, <<"M", "o", " ", "W", "e">>, <<"M", "o", " ">>,
                         <<"D", "1">>, <<"D">>, <<"T", "1", "Z">>, <<"T", "1">>, <<"T", "Z">>,
                         <<"A", "Q", "=", "=">>, <<"A", "Q", "I", "=">>, <<"A">>, <<"A", "Q">>,
                         <<"!", "!">> } }

\* The tag of the modelled fields and the tag of another field.
WireParents ==
    {<<>>}
    \cup { <<Elem(TNS \o <<"F">>, x)>> : x \in WireTexts }
    \cup { <<Elem(TNS \o <<"G">>, PyStr(<<"9">>)), Elem(TNS \o <<"F">>, x)>> : x \in WireTexts }

\* Path strings are at most MaxSegments segments joined by '__'.
MaxSegments == 3

\* The segments of the path strings: empty, the names of the item fields, an
\* unknown name, labels (one of them unknown) and sub-field names.
Segments ==
    { <<>>, <<"s">>, <<"e", "_", "a">>, <<"p", "_", "a">>, <<"x">>,
      <<"H">>, <<"W">>, <<"B">>, <<"c">>, <<"z">>, <<"v">> }

SegmentLists == UNION { [1..m -> Segments] : m \in 1..MaxSegments }

\* The descriptors that the compared paths point to: the item fields, a
\* second text field with the field_uri of the first, two text fields
\* declared without a field_uri, and two extended property fields.
PathFields ==
    { ItemFields[i] : i \in 1..Len(ItemFields) }
    \cup { Field("TextField", <<"t">>, <<"i", ":", "S">>, FALSE, None, NoBuild, None, None, <<>>, 0),
           Field("TextField", <<"u">>, <<>>, FALSE, None, NoBuild, None, None, <<>>, 0),
           Field("TextField", <<"w">>, <<>>, FALSE, None, NoBuild, None, None, <<>>, 0),
           Field("ExtendedPropertyField", <<"x">>, <<>>, FALSE, None, NoBuild, None, None, <<>>, 0),
           Field("ExtendedPropertyField", <<"y">>, <<>>, FALSE, None, NoBuild, None, None, <<>>, 0) }

\* The sub-fields that the compared paths point to: those of the two value
\* classes, and the sub-field 'c' of another multi-field value class.
PathSubFields ==
    { FIELDS("EmailAddress")[i] : i \in 1..Len(FIELDS("EmailAddress")) }
    \cup { FIELDS("PhysicalAddress")[i] : i \in 1..Len(FIELDS("PhysicalAddress")) }
    \cup { SubFieldDescr("NamedSubField", <<"c">>, <<"K">>, NoBuild) }

\* The paths constructed directly: FieldPath(field, label, subfield).
PathLabels == { None, PyStr(<<>>), PyStr(<<"H">>), PyStr(<<"W">>) }

ComparedPaths ==
    { Triple(f, l, sf) : f \in PathFields, l \in PathLabels, sf \in {None} \cup PathSubFields }

\* The elements that an item holds in an indexed collection of the value
\* class: every label, every sub-field holding one of two texts.
SubItems(vc) ==
    LET names == [i \in 1..Len(FIELDS(vc)) |-> FIELDS(vc)[i].name] IN
    { SubItem(PyStr(l), names, vals) :
        l \in { <<"H">>, <<"W">> },
        vals \in [1..Len(names) -> { PyStr(<<"a">>), PyStr(<<"b">>) }] }

\* The values that the attribute of an item holds for a field: None when the
\* item has no value for it; a text for a text field; a list of at most
\* MaxList elements for an indexed field.
ItemAttrs(f) ==
    {None} \cup
    (IF IsIndexedField(f)
     THEN { PyList(l) : l \in SeqsUpTo(SubItems(value_cls(f)), MaxList) }
     ELSE { PyStr(<<"a">>) })

\* Sort strings are at most MaxDashes characters '-' followed by a path of
\* segments, the segments drawn from SortSegments.
MaxDashes == 2

SortSegments == { <<>>, <<"s">>, <<"e", "_", "a">>, <<"p", "_", "a">>, <<"x">>, <<"H">>, <<"B">>, <<"c">> }

SortSegmentLists == UNION { [1..m -> SortSegments] : m \in 1..MaxSegments }

Dashes(n) == [i \in 1..n |-> "-"]

\* A parent element holds at most MaxProps ExtendedProperty elements.
MaxProps == 2

\* The extended property value classes: each declares the PropertyType,
\* and the set id and the name or not.
ExtendedPropertyClasses ==
    { [D |-> d, N |-> n, T |-> PyStr(<<"1">>)] : d \in {None, PyStr(<<"1">>)}, n \in {None, PyStr(<<"1">>)} }

\* The attributes of the elements on the wire: each one absent or present,
\* with the value that the classes declare or another one.
ExtendedFieldURIs ==
    { [D |-> d, N |-> n, T |-> t] :
        d \in {None, PyStr(<<"1">>)},
        n \in {None, PyStr(<<"1">>), PyStr(<<"2">>)},
        t \in {PyStr(<<"1">>), PyStr(<<"2">>)} }

\* The sequences of elements under a parent; the i-th holds the value 'i'.
ExtendedPropertySeqs ==
    { [ i \in 1..Len(uris) |-> [uri |-> uris[i], value |-> PyStr(nat_to_text(i))] ] :
        uris \in SeqsUpTo(ExtendedFieldURIs, MaxProps) }

\* A ChoiceField declares at most MaxChoices choices: the values 'a' and
\* 'b', each supported by every version or from build MaxBuild on.
MaxChoices == 2

ChoiceLists ==
    { cs \in SeqsUpTo({ Choice(v, sf) : v \in { <<"a">>, <<"b">> }, sf \in {NoBuild, MaxBuild} },
                      MaxChoices) :
        /\ Len(cs) >= 1
        /\ \A i, j \in 1..Len(cs) : i # j => cs[i] # cs[j] }

ChoiceFields ==
    { Field("ChoiceField", <<"f">>, <<"i", ":", "F">>, FALSE, None, sf, None, None, <<>>, ml) :
        sf \in {NoBuild, MaxBuild}, ml \in {0, MaxLength} }

ChoiceValues ==
    { None, PyInt(1), PyStr(<<"a">>), PyStr(<<"b">>), PyStr(<<"z">>), PyStr(<<"a", "b", "c">>) }

\* The strings handed to split_field_path: every string of at most MaxChars
\* characters 'a' and '_'.
MaxChars == 6

SplitStrings == SeqsUpTo({"a", "_"}, MaxChars)

-----------------------------------------------------------------------------
(* The state machine: one call at a time on the immutable schema *)

NoCall == [op |-> "none"]

Init ==
    /\ pc = "idle"
    /\ call = NoCall
    /\ ret = Ok(None)
    /\ wire = <<>>
    /\ ret2 = Ok(None)
    /\ out = <<>>

\* field.clean(value, version)
Clean ==
    /\ pc = "idle"
    /\ \E f \in Fields, version \in Versions :
         \E value \in ValuesFor(f) :
            /\ call' = [op |-> "clean", field |-> f, value |-> value, version |-> version]
            /\ ret' = clean(f, value, version)
    /\ pc' = "cleaned"
    /\ UNCHANGED <<wire, ret2, out>>

\* field.clean(cleaned, version) on the value a successful clean returned
CleanAgain ==
    /\ pc = "cleaned"
    /\ ret.st = "ok"
    /\ ret2' = clean(call.field, ret.val, call.version)
    /\ pc' = "recleaned"
    /\ UNCHANGED <<call, ret, wire, out>>

\* field.to_xml(value, version) of a value that validation accepts (encoding
\* is never handed an invalid value); the element is on the wire, the only
\* child of its parent.
ToXml ==
    /\ pc = "idle"
    /\ \E f \in Fields, version \in Versions :
         \E value \in ValuesFor(f) :
            /\ f.cls \in CodecClasses
            /\ value # None
            /\ clean(f, value, NoBuild) = Ok(value)
            /\ call' = [op |-> "to_xml", field |-> f, value |-> value, version |-> version]
            /\ ret' = to_xml(f, value, version)
            /\ wire' = <<to_xml(f, value, version).val>>
    /\ pc' = "encoded"
    /\ UNCHANGED <<ret2, out>>

\* A response arrives: the parent element holds no child for the field, or one
\* with some text, possibly after a child of another field.
Receive ==
    /\ pc = "idle"
    /\ \E f \in Fields, children \in WireParents :
            /\ f.cls \in CodecClasses
            /\ call' = [op |-> "from_xml", field |-> f, value |-> None, version |-> NoBuild]
            /\ wire' = children
    /\ pc' = "received"
    /\ UNCHANGED <<ret, ret2, out>>

\* field.from_xml(elem, account) on the element on the wire
FromXml ==
    /\ pc \in {"encoded", "received"}
    /\ ret2' = from_xml(call.field, wire)
    /\ pc' = "decoded"
    /\ UNCHANGED <<call, ret, wire, out>>

\* FieldPath.from_string(s, folder, strict) for a path string s made of
\* segments joined by '__'
Resolve ==
    /\ pc = "idle"
    /\ \E segs \in SegmentLists, version \in Versions, strict \in BOOLEAN :
            /\ call' = [op |-> "resolve", segs |-> segs, path |-> str_join(<<"_", "_">>, segs),
                        version |-> version, strict |-> strict,
                        expand_version |-> NoBuild, label_order |-> <<>>, attr |-> None]
            /\ ret' = FieldPath_from_string(str_join(<<"_", "_">>, segs), version, strict)
    /\ pc' = "resolved"
    /\ UNCHANGED <<wire, ret2, out>>

\* path.expand(version) on a resolved path; the supported labels, a set, are
\* iterated in some order.
Expand ==
    /\ pc = "resolved"
    /\ ret.st = "ok"
    /\ \E version \in Versions :
         \E label_order \in Orders(supported_choices(LABEL_FIELD_choices(value_cls(ret.val.field)), version)) :
            /\ call' = [call EXCEPT !.expand_version = version, !.label_order = label_order]
            /\ ret2' = Ok(FieldPath_expand(ret.val, version, label_order))
    /\ pc' = "expanded"
    /\ UNCHANGED <<ret, wire, out>>

\* path.get_value(item) on a resolved path, for an item that holds attr in
\* the attribute of the field
GetValue ==
    /\ pc = "resolved"
    /\ ret.st = "ok"
    /\ \E attr \in ItemAttrs(ret.val.field) :
            /\ call' = [call EXCEPT !.attr = attr]
            /\ out' = FieldPath_get_value(ret.val, attr)
    /\ pc' = "got"
    /\ UNCHANGED <<ret, wire, ret2>>

\* FieldOrder.from_string(s, folder) for a sort string s
OrderFromString ==
    /\ pc = "idle"
    /\ \E n \in 0..MaxDashes, segs \in SortSegmentLists, version \in Versions :
            /\ call' = [op |-> "order", dashes |-> n, segs |-> segs, version |-> version,
                        s |-> Dashes(n) \o str_join(<<"_", "_">>, segs)]
            /\ ret' = FieldOrder_from_string(Dashes(n) \o str_join(<<"_", "_">>, segs), version)
    /\ pc' = "ordered"
    /\ UNCHANGED <<wire, ret2, out>>

\* ExtendedPropertyField.from_xml(elem, account) for a parent that holds the
\* given ExtendedProperty elements
ExtendedFromXml ==
    /\ pc = "idle"
    /\ \E f \in Fields, cls \in ExtendedPropertyClasses, elems \in ExtendedPropertySeqs :
            /\ f.cls = "ExtendedPropertyField"
            /\ f.supported_from = NoBuild
            /\ ~f.is_required
            /\ call' = [op |-> "extended_from_xml", field |-> f, cls |-> cls, elems |-> elems]
            /\ ret' = ExtendedPropertyField_from_xml(f, cls, elems)
    /\ pc' = "extended_decoded"
    /\ UNCHANGED <<wire, ret2, out>>

\* ChoiceField.clean(value, version) on a field that declares the choices
ChoiceClean ==
    /\ pc = "idle"
    /\ \E f \in ChoiceFields, choices \in ChoiceLists, value \in ChoiceValues, version \in Versions :
            /\ call' = [op |-> "choice_clean", field |-> f, choices |-> choices,
                        value |-> value, version |-> version]
            /\ ret' = ChoiceField_clean(f, choices, value, version)
    /\ pc' = "choice_cleaned"
    /\ UNCHANGED <<wire, ret2, out>>

\* split_field_path(s) for a string s
Split ==
    /\ pc = "idle"
    /\ \E s \in SplitStrings :
            /\ call' = [op |-> "split", s |-> s]
            /\ out' = split_field_path(s)
    /\ pc' = "split"
    /\ UNCHANGED <<ret, wire, ret2>>

\* FieldPath.from_string(p.path, folder, strict) for a resolved path p, in
\* the mode and on the account version that p was resolved with
ResolveAgain ==
    /\ pc = "resolved"
    /\ ret.st = "ok"
    /\ out' = [ path |-> FieldPath_path(ret.val),
                again |-> FieldPath_from_string(FieldPath_path(ret.val), call.version, call.strict) ]
    /\ pc' = "resolved_again"
    /\ UNCHANGED <<call, ret, wire, ret2>>

\* a == b and hash(a), hash(b) for two paths a and b
Compare ==
    /\ pc = "idle"
    /\ \E a, b \in ComparedPaths :
            /\ call' = [op |-> "compare", a |-> a, b |-> b]
            /\ out' = [eq |-> FieldPath_eq(a, b),
                       hash_a |-> FieldPath_hash(a), hash_b |-> FieldPath_hash(b)]
    /\ pc' = "compared"
    /\ UNCHANGED <<ret, wire, ret2>>

\* For each path p that expand yielded: FieldPath.from_string(p.path, folder,
\* strict=True) on the account version that the path was expanded for, and
\* p.to_xml()
ResolveYielded ==
    /\ pc = "expanded"
    /\ out' = [ i \in 1..Len(ret2.val) |->
                 [ path |-> FieldPath_path(ret2.val[i]),
                   again |-> FieldPath_from_string(FieldPath_path(ret2.val[i]),
                                                   call.expand_version, TRUE),
                   xml |-> FieldPath_to_xml(ret2.val[i]) ] ]
    /\ pc' = "reresolved"
    /\ UNCHANGED <<call, ret, wire, ret2>>

Next ==
    \/ Clean
    \/ CleanAgain
    \/ ToXml
    \/ Receive
    \/ FromXml
    \/ Resolve
    \/ Expand
    \/ ResolveYielded
    \/ Compare
    \/ GetValue
    \/ OrderFromString
    \/ ExtendedFromXml
    \/ ChoiceClean
    \/ Split
    \/ ResolveAgain

Spec == Init /\ [][Next]_vars

-----------------------------------------------------------------------------
(* Properties of clean *)

Cleaned == pc # "idle" /\ call.op = "clean"

IsMissingRequired(r) ==
    /\ r.st = "raise"
    /\ r.err \in {"ValueError:required field with no default", "ValueError:is a required field"}

\* C1: a field whose supported_from exceeds the build of the given non-null
\* version fails every clean (and every to_xml) call with
\* ErrorInvalidServerVersion, whatever the value.
C1_UnsupportedVersionAlwaysRejected ==
    (/\ pc # "idle"
     /\ call.op \in {"clean", "to_xml"}
     /\ call.version # NoBuild
     /\ call.field.supported_from > call.version)
    => ret = Raise("ErrorInvalidServerVersion")

\* C3: on a field the version supports, clean(None) fails with the
\* missing-required-value error exactly when the field is required and its
\* default is None, and returns the default in every other case.
C3_AbsentValue ==
    (/\ Cleaned
     /\ call.value = None
     /\ supports_version(call.field, call.version))
    => IF call.field.is_required /\ call.field.default = None
       THEN IsMissingRequired(ret)
       ELSE ret = Ok(call.field.default)

\* The kind-specific refinement of a field's class is violated by the value:
\* numeric range, enum membership / non-empty / unique, text length,
\* timezone-awareness.
OutOfRange(f, v) ==
    /\ v.k \in {"int", "Decimal"}
    /\ \/ f.min # None /\ v.n < f.min.n
       \/ f.max # None /\ v.n > f.max.n

RefinementViolated(f, v) ==
    CASE f.cls \in {"IntegerField", "DecimalField"} -> OutOfRange(f, v)
      [] f.cls = "EnumField" ->
            \/ OutOfRange(f, v)
            \/ v.k = "str" /\ \A i \in 1..Len(f.enum) : f.enum[i] # v.s
      [] f.cls = "EnumListField" ->
            /\ v.k = "list"
            /\ \/ v.s = <<>>
               \/ \E i \in 1..Len(v.s) :
                     \/ OutOfRange(f, v.s[i])
                     \/ v.s[i].k = "str" /\ \A j \in 1..Len(f.enum) : f.enum[j] # v.s[i].s
               \/ \E i, j \in 1..Len(v.s) : i < j /\ v.s[i] = v.s[j]
      [] f.cls = "TextField" -> v.k = "str" /\ f.max_length # 0 /\ Len(v.s) > f.max_length
      [] f.cls = "TextListField" ->
            /\ v.k = "list" /\ f.max_length # 0
            /\ \E i \in 1..Len(v.s) : v.s[i].k = "str" /\ Len(v.s[i].s) > f.max_length
      [] f.cls = "DateTimeField" -> v.k = "EWSDateTime" /\ v.s = <<>>
      [] OTHER -> FALSE

\* The base check of the value: version support, required-ness, list shape and
\* element / scalar type, where an enumerated field takes a str for the
\* integer it stands for.
BaseView(f, v) ==
    CASE f.cls = "EnumField" /\ v.k = "str" -> PyInt(1)
      [] f.cls = "EnumListField" /\ v.k = "list" ->
            PyList([i \in 1..Len(v.s) |-> IF v.s[i].k = "str" THEN PyInt(1) ELSE v.s[i]])
      [] OTHER -> v

\* C4: when a value violates both the base check and the refinement of the
\* field's kind, clean reports the base error.
C4_BaseErrorFirst ==
    (/\ Cleaned
     /\ RefinementViolated(call.field, call.value)
     /\ Field_clean(call.field, BaseView(call.field, call.value), call.version).st = "raise")
    => ret = Field_clean(call.field, BaseView(call.field, call.value), call.version)

\* A 1-based integer position of the enum.
IsPosition(f, v) == isinstance(v, "int") /\ v.n \in 1..Len(f.enum)

\* The 1-based position that a label stands for (0 for a str that is no
\* label), by the definition of a position: enum[p] is the label.
PositionOf(f, label) ==
    IF \E p \in 1..Len(f.enum) : f.enum[p] = label
    THEN CHOOSE p \in 1..Len(f.enum) : f.enum[p] = label
    ELSE 0

\* The input with every label replaced by its position.
AsPositions(f, v) ==
    CASE v.k = "str" -> PyInt(PositionOf(f, v.s))
      [] v.k = "list" ->
            PyList([i \in 1..Len(v.s) |->
                      IF v.s[i].k = "str" THEN PyInt(PositionOf(f, v.s[i].s)) ELSE v.s[i]])
      [] OTHER -> v

IsEnumCall ==
    /\ Cleaned
    /\ call.field.cls \in {"EnumField", "EnumListField"}
    /\ call.value # None

-----------------------------------------------------------------------------
(* Properties of the codec *)

\* The text is well-formed for the field's kind.
Parsable(f, s) ==
    CASE f.cls = "BooleanField" -> s \in { <<"t", "r", "u", "e">>, <<"f", "a", "l", "s", "e">> }
      [] f.cls \in {"IntegerField", "DecimalField"} -> IsNumeral(s)
      [] f.cls = "EnumField" -> \E i \in 1..Len(f.enum) : f.enum[i] = s
      [] f.cls = "DateField" -> EWSDate_from_string(s).st = "ok"
      [] f.cls = "DateTimeField" -> EWSDateTime_from_string(s).err # "ValueError"
      [] f.cls = "Base64Field" -> b64decode(s).st = "ok"
      [] OTHER -> TRUE

\* The text of the field's element in the parent on the wire, None when the
\* element or its text is missing.
WireText(f) ==
    IF \E i \in 1..Len(wire) : wire[i].tag = response_tag(f)
    THEN wire[CHOOSE i \in 1..Len(wire) :
                /\ wire[i].tag = response_tag(f)
                /\ \A j \in 1..(i - 1) : wire[j].tag # response_tag(f)].text
    ELSE None

\* C2: decoding an element whose text is present but cannot be parsed for
\* the scalar kind of the field returns the field's default and raises
\* nothing.
C2_UnparsableTextYieldsDefault ==
    (/\ pc = "decoded"
     /\ call.op = "from_xml"
     /\ call.field.cls \in {"BooleanField", "IntegerField", "DecimalField", "EnumField",
                             "DateField", "DateTimeField", "Base64Field"}
     /\ WireText(call.field) # None
     /\ WireText(call.field).s # <<>>
     /\ ~Parsable(call.field, WireText(call.field).s))
    => ret2 = Ok(call.field.default)

\* A value of the kind's native type has been encoded and decoded again by a
\* boolean, integer, scalar enumerated, text or binary field.
RoundTripped ==
    /\ pc = "decoded"
    /\ call.op = "to_xml"
    /\ call.field.cls \in {"BooleanField", "IntegerField", "EnumField", "TextField", "Base64Field"}
    /\ call.value.k = value_cls(call.field)

-----------------------------------------------------------------------------
(* Properties of field-path resolution *)

Resolved == pc \in {"resolved", "expanded"} /\ call.op = "resolve"

\* The item field that the first segment names, when it names one.
NamesItemField(segs) == \E i \in 1..Len(ItemFields) : ItemFields[i].name = segs[1]
NamedField(segs) == ItemFields[CHOOSE i \in 1..Len(ItemFields) : ItemFields[i].name = segs[1]]

\* The call resolves a path on an indexed field with a single-field / a
\* multi-field value class.
OnIndexed == Resolved /\ NamesItemField(call.segs) /\ IsIndexedField(NamedField(call.segs))
OnSingleField == OnIndexed /\ NamedField(call.segs).cls = "EmailAddressField"
OnMultiField == OnIndexed /\ NamedField(call.segs).cls = "PhysicalAddressField"

\* The label choices that support the version of the account.
ValidLabels(version) ==
    { c.value : c \in { d \in { LABEL_FIELD_choices("")[i] : i \in 1..Len(LABEL_FIELD_choices("")) } :
                          d.supported_from = NoBuild \/ version = NoBuild \/ d.supported_from <= version } }

\* The sub-field that a PhysicalAddress declares under the name, if any.
Declares(vc, name) == \E i \in 1..Len(FIELDS(vc)) : FIELDS(vc)[i].name = name
Declared(vc, name) == FIELDS(vc)[CHOOSE i \in 1..Len(FIELDS(vc)) : FIELDS(vc)[i].name = name]

\* The paths that the call has produced: the resolved one and the expanded ones.
Produced ==
    (IF Resolved /\ ret.st = "ok" THEN {ret.val} ELSE {})
    \cup (IF Resolved /\ pc = "expanded" THEN { ret2.val[i] : i \in 1..Len(ret2.val) } ELSE {})

\* C7: in every path produced by from_string or expand, subfield is set only
\* if label is set and not empty, or the value class is single-field.
C7_SubfieldNeedsNonEmptyLabel ==
    \A p \in Produced :
        p.subfield # None =>
            \/ p.label # None /\ p.label.s # <<>>
            \/ IsSingleField(value_cls(p.field))

\* C8 as stated: on an indexed field, a path with no label segment fails with
\* the missing-label error when strict and succeeds with label None
\* otherwise; a path with a label segment succeeds only if the label is a
\* choice supported by the version and fails with the invalid-label error
\* otherwise, whatever the mode and the sub-field segment.
C8_LabelSegment ==
    OnIndexed =>
        IF Len(call.segs) = 1
        THEN IF call.strict THEN ret = Raise("ValueError:must specify label")
             ELSE ret.st = "ok" /\ ret.val.label = None
        ELSE IF call.segs[2] \in ValidLabels(call.version)
             THEN ret.st = "ok" => ret.val.label = PyStr(call.segs[2])
             ELSE ret = Raise("ValueError:label must be one of")

\* C8 amended: an empty label segment is handled as a missing one (the
\* missing-label error when strict, no label check otherwise); a non-empty
\* label segment succeeds only if the label is a choice supported by the
\* version and fails with the invalid-label error otherwise, whatever the
\* mode and the sub-field segment.
C8_NonEmptyLabelSegment ==
    OnIndexed =>
        IF Len(call.segs) = 1
        THEN IF call.strict THEN ret = Raise("ValueError:must specify label")
             ELSE ret.st = "ok" /\ ret.val.label = None
        ELSE IF call.segs[2] = <<>>
        THEN IF call.strict THEN ret = Raise("ValueError:must specify label")
             ELSE ret # Raise("ValueError:label must be one of")
        ELSE IF call.segs[2] \in ValidLabels(call.version)
             THEN ret.st = "ok" => ret.val.label = PyStr(call.segs[2])
             ELSE ret = Raise("ValueError:label must be one of")

\* The label 'W' was rejected on a version that has no such label although
\* the sub-field segment is not acceptable either.
C8_Witness ==
    /\ OnSingleField
    /\ call.version = 1
    /\ call.segs = << <<"e", "_", "a">>, <<"W">>, <<"c">> >>
    /\ ret = Raise("ValueError:label must be one of")

IsValidLabelCall ==
    /\ Len(call.segs) >= 2
    /\ call.segs[2] \in ValidLabels(call.version)

\* C9 as stated: on a multi-field indexed field with a valid label, a path
\* with no sub-field segment fails with the missing-subfield error when
\* strict and succeeds with subfield None otherwise; a path with a sub-field
\* segment returns the declared sub-field of that name or fails with the
\* unknown-subfield error.
C9_SubfieldSegment ==
    (OnMultiField /\ IsValidLabelCall) =>
        IF Len(call.segs) = 2
        THEN IF call.strict THEN ret = Raise("ValueError:must specify subfield")
             ELSE ret.st = "ok" /\ ret.val.subfield = None
        ELSE IF Declares("PhysicalAddress", call.segs[3])
             THEN ret.st = "ok" /\ ret.val.subfield = Declared("PhysicalAddress", call.segs[3])
             ELSE ret = Raise("ValueError:subfield must be one of")

\* C9 amended: an empty sub-field segment is handled as a missing one; a
\* non-empty one returns the declared sub-field of that name or fails with
\* the unknown-subfield error.
C9_NonEmptySubfieldSegment ==
    (OnMultiField /\ IsValidLabelCall) =>
        IF Len(call.segs) = 2 \/ call.segs[3] = <<>>
        THEN IF call.strict THEN ret = Raise("ValueError:must specify subfield")
             ELSE ret.st = "ok" /\ ret.val.subfield = None
        ELSE IF Declares("PhysicalAddress", call.segs[3])
             THEN ret.st = "ok" /\ ret.val.subfield = Declared("PhysicalAddress", call.segs[3])
             ELSE ret = Raise("ValueError:subfield must be one of")

\* A strict resolution has returned the sub-field 'z', which the version of
\* the account does not support but the value class declares.
C9_Witness ==
    /\ OnMultiField
    /\ call.strict
    /\ call.version = 1
    /\ call.segs = << <<"p", "_", "a">>, <<"H">>, <<"z">> >>
    /\ ret.st = "ok"
    /\ ret.val.subfield.name = <<"z">>

\* C10 as stated: on a single-field indexed field, every path with a
\* sub-field segment fails with the unexpected-subfield error, and every
\* successful resolution returns the one value sub-field of the value class.
C10_SingleField ==
    OnSingleField =>
        /\ Len(call.segs) >= 3 => ret = Raise("ValueError:must not specify subfield")
        /\ ret.st = "ok" => ret.val.subfield = FIELDS("EmailAddress")[1]

\* C10 amended: on a single-field indexed field, every path with a non-empty
\* sub-field segment whose label segment passes the label check (a supported
\* label, or an empty one in non-strict mode) fails with the
\* unexpected-subfield error; every successful resolution, an empty
\* sub-field segment included, returns the one value sub-field of the value
\* class.
C10_SingleFieldNonEmpty ==
    OnSingleField =>
        /\ (/\ Len(call.segs) >= 3
            /\ call.segs[3] # <<>>
            /\ \/ call.segs[2] \in ValidLabels(call.version)
               \/ call.segs[2] = <<>> /\ ~call.strict)
           => ret = Raise("ValueError:must not specify subfield")
        /\ (Len(call.segs) >= 3 /\ call.segs[3] = <<>> /\ call.segs[2] \in ValidLabels(call.version))
           => ret.st = "ok"
        /\ ret.st = "ok" => ret.val.subfield = FIELDS("EmailAddress")[1]

\* The non-strict resolution of 'e_a__H__v' was rejected for its sub-field
\* segment.
C10_Witness ==
    /\ OnSingleField
    /\ call.segs = << <<"e", "_", "a">>, <<"H">>, <<"v">> >>
    /\ ~call.strict
    /\ ret = Raise("ValueError:must not specify subfield")

-----------------------------------------------------------------------------
(* Properties of resolution on unknown and on non-indexed fields *)

\* The call resolves a path whose first segment names a field that is no
\* indexed field.
OnPlainField == Resolved /\ NamesItemField(call.segs) /\ ~IsIndexedField(NamedField(call.segs))

-----------------------------------------------------------------------------
(* Properties of expand *)

Expanded == pc = "expanded" /\ call.op = "resolve"

\* The sequence of the paths of field over the labels and the sub-fields,
\* the labels in the outer loop.
LabelsTimesSubfields(field, labels, subfields) ==
    [ n \in 1..(Len(labels) * Len(subfields)) |->
        Triple(field,
               PyStr(labels[((n - 1) \div Len(subfields)) + 1]),
               subfields[((n - 1) % Len(subfields)) + 1]) ]

\* The declared sub-fields of a value class that support the version.
DeclaredSupporting(vc, version) ==
    SelectSeq(FIELDS(vc), LAMBDA sf : \/ sf.supported_from = NoBuild
                                      \/ version = NoBuild
                                      \/ version >= sf.supported_from)

\* C12 as stated: expand yields the path itself for a non-indexed field, and
\* for an indexed field the product of the fixed label (or, when label is
\* None, all labels supported by the version) and the fixed sub-field (or,
\* when subfield is None, all declared sub-fields), labels in the outer loop.
C12_ExpandDeclared ==
    Expanded =>
        IF ~IsIndexedField(ret.val.field) THEN ret2.val = <<ret.val>>
        ELSE ret2.val = LabelsTimesSubfields(ret.val.field,
                            IF ret.val.label # None THEN <<ret.val.label.s>> ELSE call.label_order,
                            IF ret.val.subfield # None THEN <<ret.val.subfield>>
                            ELSE FIELDS(value_cls(ret.val.field)))

\* C12 amended: expand yields the path itself for a non-indexed field, and
\* for an indexed field the product of the fixed label (or, when label is
\* None or empty, all labels supported by the version, in the order the set
\* iterates) and the fixed sub-field (or, when subfield is None, the declared
\* sub-fields that support the version), labels in the outer loop; a path
\* with a non-empty label and a sub-field yields itself only.
C12_ExpandSupported ==
    Expanded =>
        /\ call.label_order \in Orders(ValidLabels(call.expand_version))
        /\ IF ~IsIndexedField(ret.val.field) THEN ret2.val = <<ret.val>>
           ELSE ret2.val = LabelsTimesSubfields(ret.val.field,
                            IF ret.val.label \notin {None, PyStr(<<>>)}
                            THEN <<ret.val.label.s>> ELSE call.label_order,
                            IF ret.val.subfield # None THEN <<ret.val.subfield>>
                            ELSE DeclaredSupporting(value_cls(ret.val.field), call.expand_version))
        /\ (IsIndexedField(ret.val.field) /\ ret.val.label \notin {None, PyStr(<<>>)}
                /\ ret.val.subfield # None) => ret2.val = <<ret.val>>

\* The path 'p_a' was expanded for a version that has one label and one
\* sub-field only, although the value class declares two sub-fields.
C12_Witness ==
    /\ Expanded
    /\ ret.val = Triple(ItemFields[3], None, None)
    /\ call.expand_version = 1
    /\ Len(FIELDS("PhysicalAddress")) = 2
    /\ Len(ret2.val) = 1
    /\ ret2.val[1].label = PyStr(<<"H">>)
    /\ ret2.val[1].subfield.name = <<"c">>

\* The paths that expand yielded have been resolved again; the expanded path
\* is the multi-field indexed field alone, no label and no sub-field set.
WildcardReresolved ==
    /\ pc = "reresolved"
    /\ call.op = "resolve"
    /\ ret.val.field.cls = "PhysicalAddressField"
    /\ ret.val.label = None
    /\ ret.val.subfield = None

\* The yielded paths are pairwise unequal, the string form of each resolves
\* in strict mode to a path equal to it, and each has a wire address.
YieldedDistinctAndResolvable ==
    /\ \A i, j \in 1..Len(ret2.val) : i # j => ~FieldPath_eq(ret2.val[i], ret2.val[j])
    /\ \A i \in 1..Len(out) :
          /\ out[i].again.st = "ok"
          /\ FieldPath_eq(out[i].again.val, ret2.val[i])
          /\ out[i].again.val = ret2.val[i]
          /\ out[i].xml.st = "ok"

\* C13: expand of a multi-field path with neither label nor sub-field set
\* yields |labels| * |subfields| paths, the labels and the sub-fields being
\* those that the version supports; the paths are pairwise unequal, each p.path
\* resolves in strict mode to a path equal to p, and each p.to_xml()
\* succeeds.
C13_WildcardSupported ==
    WildcardReresolved =>
        /\ Len(ret2.val) = Cardinality(ValidLabels(call.expand_version))
                              * Len(DeclaredSupporting("PhysicalAddress", call.expand_version))
        /\ Len(out) = Len(ret2.val)
        /\ YieldedDistinctAndResolvable

\* 'p_a' was expanded for a version that has both labels and both
\* sub-fields: four paths, the last of which has the string form
\* 'p_a__<label>__z'.
C13_Witness ==
    /\ WildcardReresolved
    /\ call.expand_version = MaxBuild
    /\ Len(out) = 4
    /\ out[4].path \in { <<"p", "_", "a", "_", "_", "H", "_", "_", "z">>,
                         <<"p", "_", "a", "_", "_", "W", "_", "_", "z">> }
    /\ out[4].again.st = "ok"

-----------------------------------------------------------------------------
(* Properties of FieldPath equality *)

Compared == pc = "compared" /\ call.op = "compare"

\* C14: two paths compare equal if and only if they have the same field
\* descriptor, equal labels and the same sub-field descriptor; equal paths
\* have equal hashes; paths over two different descriptors are never equal.
C14_EqualIffSameTriple ==
    Compared =>
        /\ out.eq <=> (/\ call.a.field = call.b.field
                       /\ call.a.label = call.b.label
                       /\ call.a.subfield = call.b.subfield)
        /\ out.eq => out.hash_a = out.hash_b
        /\ call.a.field # call.b.field => ~out.eq

-----------------------------------------------------------------------------
(* Properties of get_value *)

GotValue == pc = "got" /\ call.op = "resolve"

\* The first element of the attribute with the label of the path, if any.
HasLabelled(attr, label) ==
    attr.k = "list" /\ \E i \in 1..Len(attr.s) : attr.s[i].label = label
FirstLabelled(attr, label) ==
    attr.s[CHOOSE i \in 1..Len(attr.s) :
                /\ attr.s[i].label = label
                /\ \A j \in 1..(i - 1) : attr.s[j].label # label]

\* C15: get_value returns the attribute of the item unchanged when the path
\* has no label (None or empty); with a label it returns, for the first
\* element with that label, the value of the sub-field if one is set and the
\* element otherwise; it returns None, and does not raise, when no element
\* has the label, the attribute holding no elements included.
C15_GetValue ==
    GotValue =>
        IF ret.val.label \in {None, PyStr(<<>>)} THEN out = Ok(call.attr)
        ELSE IF HasLabelled(call.attr, ret.val.label) THEN
            IF ret.val.subfield # None
            THEN out = getattr(FirstLabelled(call.attr, ret.val.label), ret.val.subfield.name)
                 /\ out.st = "ok"
            ELSE out = Ok(FirstLabelled(call.attr, ret.val.label))
        ELSE out = Ok(None)

-----------------------------------------------------------------------------
(* Properties of FieldOrder.from_string *)

Ordered == pc = "ordered" /\ call.op = "order"

\* The string without its one leading '-', if it has one.
WithoutOneDash(s) == IF Len(s) > 0 /\ s[1] = "-" THEN Tail(s) ELSE s

\* C16: FieldOrder.from_string(s) fails exactly when the strict resolution
\* of s without its one leading '-' fails; otherwise its field_path is that
\* resolution and reverse is true exactly when s starts with '-'.  A
\* remainder on an indexed field without a label or, multi-field, without a
\* sub-field fails.
C16_OneLeadingDash ==
    Ordered =>
        LET expected == FieldPath_from_string(WithoutOneDash(call.s), call.version, TRUE) IN
        /\ expected.st = "raise" => ret.st = "raise"
        /\ expected.st = "ok" =>
              /\ ret.st = "ok"
              /\ ret.val.field_path = expected.val
              /\ ret.val.reverse = (call.dashes >= 1)
        /\ ret.st = "ok" =>
              /\ IsIndexedField(ret.val.field_path.field) =>
                    ret.val.field_path.label \notin {None, PyStr(<<>>)}
              /\ IsIndexedField(ret.val.field_path.field) => ret.val.field_path.subfield # None

-----------------------------------------------------------------------------
(* Properties of ExtendedPropertyField.from_xml *)

ExtendedDecoded == pc = "extended_decoded" /\ call.op = "extended_from_xml"

\* The element has the value of the class on every attribute that the class
\* declares.
MatchesDeclared(e, cls) == \A a \in PropertyAttrs : cls[a] # None => e.uri[a] = cls[a]

-----------------------------------------------------------------------------
(* Properties of ChoiceField.clean *)

\* A present text within the length limit was cleaned on a field that the
\* version supports.
ChoiceCleaned ==
    /\ pc = "choice_cleaned"
    /\ call.op = "choice_clean"
    /\ call.value.k = "str"
    /\ call.field.max_length = 0 \/ Len(call.value.s) <= call.field.max_length
    /\ call.field.supported_from = NoBuild \/ call.version = NoBuild
          \/ call.version >= call.field.supported_from

\* The declared choices with the value / that also support the version.
Declaring(choices, v) == { i \in 1..Len(choices) : choices[i].value = v.s }
Supporting(choices, v, version) ==
    { i \in Declaring(choices, v) : \/ choices[i].supported_from = NoBuild
                                     \/ version = NoBuild
                                     \/ version >= choices[i].supported_from }

\* C18: ChoiceField.clean returns v exactly when some declared Choice has
\* the value v and supports the version; it fails with the
\* unsupported-version error when Choices have the value but none of them
\* supports the version, and with the invalid-choice error when no declared
\* Choice has the value.
C18_ChoiceClean ==
    ChoiceCleaned =>
        /\ (call.value.s \in supported_choices(call.choices, call.version))
              <=> Supporting(call.choices, call.value, call.version) # {}
        /\ IF Supporting(call.choices, call.value, call.version) # {}
           THEN ret = Ok(call.value)
           ELSE IF Declaring(call.choices, call.value) # {}
           THEN ret = Raise("ErrorInvalidServerVersion")
           ELSE ret = Raise("ValueError:invalid choice")

-----------------------------------------------------------------------------
(* Properties of split_field_path *)

WasSplit == pc = "split" /\ call.op = "split"

\* The position of the first '__' in s, 0 if there is none; the text before
\* it and the text after it.
FirstDelimiter(s) ==
    IF \E i \in 1..(Len(s) - 1) : s[i] = "_" /\ s[i + 1] = "_"
    THEN CHOOSE i \in 1..(Len(s) - 1) :
            /\ s[i] = "_" /\ s[i + 1] = "_"
            /\ \A j \in 1..(i - 1) : ~(s[j] = "_" /\ s[j + 1] = "_")
    ELSE 0
BeforeDelimiter(s) == IF FirstDelimiter(s) = 0 THEN s ELSE SubSeq(s, 1, FirstDelimiter(s) - 1)
AfterDelimiter(s) == SubSeq(s, FirstDelimiter(s) + 2, Len(s))

\* C19: split_field_path returns, for every string, the first segment, the
\* second or None if there is none, and the third or None if there is none,
\* the segments being those that the delimiter '__' separates; a string
\* without the delimiter yields (s, None, None).
C19_SplitSegments ==
    WasSplit =>
        LET s == call.s
            rest1 == AfterDelimiter(s)
            rest2 == AfterDelimiter(rest1)
        IN  /\ out[1] = PyStr(BeforeDelimiter(s))
            /\ out[2] = IF FirstDelimiter(s) = 0 THEN None ELSE PyStr(BeforeDelimiter(rest1))
            /\ out[3] = IF FirstDelimiter(s) = 0 \/ FirstDelimiter(rest1) = 0 THEN None
                        ELSE PyStr(BeforeDelimiter(rest2))
            /\ FirstDelimiter(s) = 0 => out = <<PyStr(s), None, None>>

\* The string of six '_' has four empty segments; the first three were
\* returned.
C19_Witness ==
    /\ WasSplit
    /\ call.s = <<"_", "_", "_", "_", "_", "_">>
    /\ out = <<PyStr(<<>>), PyStr(<<>>), PyStr(<<>>)>>

-----------------------------------------------------------------------------
(* Properties of the string form of a resolved path *)

ResolvedAgain == pc = "resolved_again" /\ call.op = "resolve"

\* C20: for every path string and mode that from_string resolves to a path
\* p, from_string of p.path in the same mode succeeds with the field, the
\* label and the subfield of p.
C20_PathRoundTrip ==
    ResolvedAgain =>
        /\ out.again.st = "ok"
        /\ out.again.val.field = ret.val.field
        /\ out.again.val.label = ret.val.label
        /\ out.again.val.subfield = ret.val.subfield

====
